---- MODULE Spec2Model ----
(***************************************************************************)
(* Grid-balancing dashboard (pages/Index, OperationalModes,                *)
(* EnergyFlowSchematic) and the dispatch rule optimize_grid of README.md.  *)
(*                                                                         *)
(* Units.  The dispatch rule and the request body work in whole MW / MWh.  *)
(* Records held by the dashboard carry floating point values; they are     *)
(* kept in hundredths of a MW (MWh, percent point), so 5 MW is 500.        *)
(* SOC fractions (0.2, 0.8) are kept in percent (20, 80).                  *)
(***************************************************************************)
EXTENDS Integers, Sequences, FiniteSets, TLC

VARIABLES
    \* ---- dashboard state (Index) ----
    mode, turbineCount, turbineAvailability, batteryCapacity, faults,
    dateRange, simulationData, alerts, maintenanceWindows, summary,
    isRunning, liveUpdateCount, liveIntervalRef,
    \* the timers setInterval has started and clearInterval has not stopped,
    \* whether the page is mounted, and the closure of the render whose
    \* keyboard effect registered the keydown listener
    intervals, mounted, handleKeyPress,
    \* requests awaiting their response, and the run that last wrote
    \* simulationData (its request body and the forecast the backend used)
    inflight, lastRun,
    \* ---- one run of the dispatch rule ----
    engineCfg, soc_mwh, stepRec

uiVars     == <<mode, turbineCount, turbineAvailability, batteryCapacity, faults, dateRange>>
dataVars   == <<simulationData, alerts, maintenanceWindows, summary, liveUpdateCount, lastRun>>
runVars    == <<isRunning, liveIntervalRef, inflight, intervals, mounted, handleKeyPress>>
engineVars == <<engineCfg, soc_mwh, stepRec>>
vars       == <<uiVars, dataVars, runVars, engineVars>>

(***************************************************************************)
(* Bounds of the model.                                                    *)
(***************************************************************************)
\* Math.random() is drawn from {0/RandDen, .., (RandDen-1)/RandDen}
RandDen == 3
\* requests that may await their response at the same time
MaxInFlight == 2
\* records in one backend response
HorizonLen == 2
\* live appends followed in one behaviour
MaxLiveUpdates == 1

None == "none"
\* a date the user has not picked (dates are day numbers >= 0)
undefined == 0 - 1
NoDateRange == [absent |-> TRUE]
NoSummary == [isNull |-> TRUE]
NoInterval == [active |-> FALSE]

Min(a, b) == IF a <= b THEN a ELSE b
Max(a, b) == IF a >= b THEN a ELSE b
Min3(a, b, c) == Min(a, Min(b, c))
Abs(x) == IF x < 0 THEN -x ELSE x

\* whole MW -> hundredths of a MW
Centi(x) == x * 100

(***************************************************************************)
(* README.md, "Grid Optimization Algorithm".                               *)
(* battery_soc is the fraction soc_mwh / battery_capacity, hence           *)
(*   (0.8 - battery_soc) * battery_capacity = (80*capacity - 100*soc)/100  *)
(*   (battery_soc - 0.2) * battery_capacity = (100*soc - 20*capacity)/100  *)
(* (exact: capacities are multiples of 5 MWh, soc_mwh is whole).           *)
(* battery_capacity, battery_charge_capacity and battery_discharge_capacity*)
(* are the globals the function reads.                                     *)
(***************************************************************************)
optimize_grid_no_headroom(supply, demand, soc, battery_capacity, battery_charge_capacity, battery_discharge_capacity) ==
    LET surplus == supply - demand IN
    IF surplus > 0
    THEN LET charge_amount == Min(surplus, battery_charge_capacity)
         IN  [battery_charge |-> charge_amount, grid_export |-> surplus - charge_amount]
    ELSE LET deficit == Abs(surplus)
             discharge_amount == Min(deficit, battery_discharge_capacity)
         IN  [battery_discharge |-> discharge_amount, grid_import |-> deficit - discharge_amount]

optimize_grid_no_power_limit(supply, demand, soc, battery_capacity, battery_charge_capacity, battery_discharge_capacity) ==
    LET surplus == supply - demand IN
    IF surplus > 0
    THEN LET charge_amount == Min(surplus, (80 * battery_capacity - 100 * soc) \div 100)
         IN  [battery_charge |-> charge_amount, grid_export |-> surplus - charge_amount]
    ELSE LET deficit == Abs(surplus)
             discharge_amount == Min(deficit, (100 * soc - 20 * battery_capacity) \div 100)
         IN  [battery_discharge |-> discharge_amount, grid_import |-> deficit - discharge_amount]

optimize_grid_surplus_ge(supply, demand, soc, battery_capacity, battery_charge_capacity, battery_discharge_capacity) ==
    LET surplus == supply - demand IN
    IF surplus >= 0
    THEN LET charge_amount == Min3(surplus, battery_charge_capacity,
                                   (80 * battery_capacity - 100 * soc) \div 100)
         IN  [battery_charge |-> charge_amount, grid_export |-> surplus - charge_amount]
    ELSE LET deficit == Abs(surplus)
             discharge_amount == Min3(deficit, battery_discharge_capacity,
                                      (100 * soc - 20 * battery_capacity) \div 100)
         IN  [battery_discharge |-> discharge_amount, grid_import |-> deficit - discharge_amount]

optimize_grid_empty_floor(supply, demand, soc, battery_capacity, battery_charge_capacity, battery_discharge_capacity) ==
    LET surplus == supply - demand IN
    IF surplus > 0
    THEN LET charge_amount == Min3(surplus, battery_charge_capacity,
                                   (80 * battery_capacity - 100 * soc) \div 100)
         IN  [battery_charge |-> charge_amount, grid_export |-> surplus - charge_amount]
    ELSE LET deficit == Abs(surplus)
             discharge_amount == Min3(deficit, battery_discharge_capacity, soc)
         IN  [battery_discharge |-> discharge_amount, grid_import |-> deficit - discharge_amount]

optimize_grid(supply, demand, soc, battery_capacity, battery_charge_capacity, battery_discharge_capacity) ==
    LET surplus == supply - demand IN
    IF surplus > 0
    THEN \* Excess generation
         LET charge_amount == Min3(surplus, battery_charge_capacity,
                                   (80 * battery_capacity - 100 * soc) \div 100)
             export_amount == surplus - charge_amount
         IN  [battery_charge |-> charge_amount, grid_export |-> export_amount]
    ELSE \* Generation deficit
         LET deficit == Abs(surplus)
             discharge_amount == Min3(deficit, battery_discharge_capacity,
                                      (100 * soc - 20 * battery_capacity) \div 100)
             import_amount == deficit - discharge_amount
         IN  [battery_discharge |-> discharge_amount, grid_import |-> import_amount]

\* a key the returned dict does not carry reads as 0
Get(out, key) == IF key \in DOMAIN out THEN out[key] ELSE 0

(***************************************************************************)
(* One run of the dispatch rule: the battery state of the timestep loop.   *)
(* SOC follows the applied power (dt = 1 h): soc + charge - discharge.     *)
(***************************************************************************)
\* capacities: slider minimum, default, and the default halved by a battery fault
EngineCapacities == {100, 150, 300}
EngineChargeLimits == {25, 50}
EngineDischargeLimits == {50, 100}
\* hourly supply / demand of the forecast, MW
PowerLevels == {0, 40, 70, 100, 130}

EngineConfigs ==
    [battery_capacity_mwh : EngineCapacities,
     battery_max_charge_mw : EngineChargeLimits,
     battery_max_discharge_mw : EngineDischargeLimits]

NoStep == [taken |-> FALSE]

NextSoc(soc, out) == soc + Get(out, "battery_charge") - Get(out, "battery_discharge")

DispatchStep(supply, demand) ==
    LET out == optimize_grid(supply, demand, soc_mwh,
                             engineCfg.battery_capacity_mwh,
                             engineCfg.battery_max_charge_mw,
                             engineCfg.battery_max_discharge_mw)
    IN  /\ stepRec' = [taken |-> TRUE, supply |-> supply, demand |-> demand,
                       soc_before |-> soc_mwh, out |-> out]
        /\ soc_mwh' = NextSoc(soc_mwh, out)
        /\ UNCHANGED <<engineCfg, uiVars, dataVars, runVars>>

(***************************************************************************)
(* runSimulation: the request body built from the page state.              *)
(* turbine_availability is kept in percent (0.25 -> 25, slider v/100 -> v).*)
(* batteryCapacity * 0.5 and batteryCapacity / 2 are exact on the slider's *)
(* multiples of 10.                                                        *)
(***************************************************************************)
requestBody_initial_full(m, tCount, tAvail, bCap, f, dRange) ==
    [use_live_data |-> (m = "LIVE"),
     turbine_count |-> tCount,
     turbine_availability |->
         IF f.multipleTurbineFailure THEN 25 ELSE IF f.turbineFailure THEN 50 ELSE tAvail,
     battery_capacity_mwh |-> IF f.batteryFault THEN (bCap * 5) \div 10 ELSE bCap,
     initial_battery_mwh |-> bCap,
     community_demand_percent |-> 1,
     community_base_load_mw |-> 75,
     battery_max_charge_mw |-> 50,
     battery_max_discharge_mw |-> 100,
     low_wind_threshold |-> 3,
     high_wind_threshold |-> 25,
     battery_low_threshold |-> 20,
     battery_high_threshold |-> 80,
     date_range |-> IF m = "CUSTOM" /\ dRange.from # undefined /\ dRange.to # undefined
                    THEN dRange ELSE NoDateRange]

requestBody_single_first(m, tCount, tAvail, bCap, f, dRange) ==
    [use_live_data |-> (m = "LIVE"),
     turbine_count |-> tCount,
     turbine_availability |->
         IF f.turbineFailure THEN 50 ELSE IF f.multipleTurbineFailure THEN 25 ELSE tAvail,
     battery_capacity_mwh |-> IF f.batteryFault THEN (bCap * 5) \div 10 ELSE bCap,
     initial_battery_mwh |-> bCap \div 2,
     community_demand_percent |-> 1,
     community_base_load_mw |-> 75,
     battery_max_charge_mw |-> 50,
     battery_max_discharge_mw |-> 100,
     low_wind_threshold |-> 3,
     high_wind_threshold |-> 25,
     battery_low_threshold |-> 20,
     battery_high_threshold |-> 80,
     date_range |-> IF m = "CUSTOM" /\ dRange.from # undefined /\ dRange.to # undefined
                    THEN dRange ELSE NoDateRange]

requestBody(m, tCount, tAvail, bCap, f, dRange) ==
    [use_live_data |-> (m = "LIVE"),
     turbine_count |-> tCount,
     turbine_availability |->
         IF f.multipleTurbineFailure THEN 25 ELSE IF f.turbineFailure THEN 50 ELSE tAvail,
     battery_capacity_mwh |-> IF f.batteryFault THEN (bCap * 5) \div 10 ELSE bCap,
     initial_battery_mwh |-> bCap \div 2,
     community_demand_percent |-> 1,
     community_base_load_mw |-> 75,
     battery_max_charge_mw |-> 50,
     battery_max_discharge_mw |-> 100,
     low_wind_threshold |-> 3,
     high_wind_threshold |-> 25,
     battery_low_threshold |-> 20,
     battery_high_threshold |-> 80,
     date_range |-> IF m = "CUSTOM" /\ dRange.from # undefined /\ dRange.to # undefined
                    THEN dRange ELSE NoDateRange]

\* the body runSimulation builds when called from the current render
CurrentBody ==
    requestBody(mode, turbineCount, turbineAvailability, batteryCapacity, faults, dateRange)

\* a call of runSimulation up to its await: what the closure captured, and
\* the caller ("button", "space", "effect" or "interval")
Request(trigger, isLiveUpdate, m, hadData, body) ==
    [trigger |-> trigger, isLiveUpdate |-> isLiveUpdate, mode |-> m,
     hadData |-> hadData, body |-> body]

\* the render a keydown listener was registered in: the state its
\* runSimulation reads
KeyClosure(m, running, data, body) ==
    [mode |-> m, isRunning |-> running, hadData |-> (data # <<>>), body |-> body]

\* ---- state after construction of the page (Index, useState defaults) ----
NoFaults == [turbineFailure |-> FALSE, multipleTurbineFailure |-> FALSE,
             gridIssue |-> FALSE, batteryFault |-> FALSE]

InitDashboard ==
    /\ mode = "MANUAL"
    /\ turbineCount = 50
    /\ turbineAvailability = 95
    /\ batteryCapacity = 300
    /\ faults = NoFaults
    /\ dateRange = [from |-> undefined, to |-> undefined]
    /\ simulationData = <<>>
    /\ alerts = <<>>
    /\ maintenanceWindows = <<>>
    /\ summary = NoSummary
    /\ isRunning = FALSE
    /\ liveUpdateCount = 0
    /\ liveIntervalRef = NoInterval
    /\ intervals = <<>>
    /\ mounted = TRUE
    /\ handleKeyPress = KeyClosure(mode, isRunning, simulationData, CurrentBody)
    /\ inflight = <<>>
    /\ lastRun = [kind |-> None]

InitEngineIdle ==
    /\ engineCfg = [battery_capacity_mwh |-> 300, battery_max_charge_mw |-> 50,
                    battery_max_discharge_mw |-> 100]
    /\ soc_mwh = 150
    /\ stepRec = NoStep

\* the dispatch rule from any configuration and any initial SOC in [0, capacity]
InitDispatch ==
    /\ InitDashboard
    /\ engineCfg \in EngineConfigs
    /\ soc_mwh \in 0..engineCfg.battery_capacity_mwh
    /\ stepRec = NoStep

NextDispatch == \E supply \in PowerLevels, demand \in PowerLevels : DispatchStep(supply, demand)

SpecDispatch == InitDispatch /\ [][NextDispatch]_vars

(***************************************************************************)
(* runSimulation, catch branch: the generated fallback records.            *)
(* Math.sin(hour * PI / 12) * 20, rounded to hundredths.                   *)
(***************************************************************************)
Sin20Quarter == <<0, 518, 1000, 1414, 1732, 1932, 2000>>

Sin20(hour) ==
    LET h == hour % 24 IN
    IF h <= 6 THEN Sin20Quarter[h + 1]
    ELSE IF h <= 12 THEN Sin20Quarter[12 - h + 1]
    ELSE IF h <= 18 THEN 0 - Sin20Quarter[h - 12 + 1]
    ELSE 0 - Sin20Quarter[24 - h + 1]

\* Math.random() * k for the draw r / RandDen
Rand(r, k) == (Centi(k) * r) \div RandDen

\* the draw of stream s at record hour: the streams differ from hour to hour
Draw(s, hour) == (s + hour) % RandDen

MockDemand(hourOfDay) ==
    IF hourOfDay >= 7 /\ hourOfDay <= 9 THEN Centi(95)
    ELSE IF hourOfDay >= 12 /\ hourOfDay <= 14 THEN Centi(85)
    ELSE IF hourOfDay >= 17 /\ hourOfDay <= 20 THEN Centi(110)
    ELSE IF hourOfDay >= 22 \/ hourOfDay <= 5 THEN Centi(60)
    ELSE Centi(70)

MockStatus_zero_band(netBalance) ==
    IF netBalance > 0 THEN "Surplus"
    ELSE IF netBalance < 0 THEN "Deficit" ELSE "Balanced"

MockStatus(netBalance) ==
    IF netBalance > Centi(5) THEN "Surplus"
    ELSE IF netBalance < 0 - Centi(5) THEN "Deficit" ELSE "Balanced"

MockRecord_both_flows(hour, rSupply, rBattery, rDemand) ==
    LET hourOfDay == hour
        demand == MockDemand(hourOfDay)
        supply == Centi(50) + Sin20(hourOfDay) + Rand(rSupply, 15)
        netBalance == supply - demand
        batteryLevel == Centi(30) + Sin20(hourOfDay) + Rand(rBattery, 10)
    IN  [hour |-> hourOfDay,
         simulated_supply_mw |-> Max(0, supply),
         simulated_demand_mw |-> Max(0, demand + Rand(rDemand, 10)),
         net_balance_mw |-> netBalance,
         battery_charge_mwh |-> batteryLevel * 3,
         battery_percent |-> Max(Centi(10), Min(Centi(95), batteryLevel)),
         to_battery_mw |-> IF netBalance > 0 THEN Min(netBalance, Centi(20)) ELSE 0,
         from_battery_mw |-> Min(Abs(netBalance), Centi(25)),
         to_grid_mw |-> IF netBalance > 0 THEN Max(0, netBalance - Centi(5)) ELSE 0,
         from_grid_mw |-> IF netBalance < 0 THEN Max(0, Abs(netBalance) - Centi(5)) ELSE 0,
         status |-> MockStatus(netBalance)]

\* rSupply, rBattery, rDemand: the first three Math.random() draws of the record
MockRecord(hour, rSupply, rBattery, rDemand) ==
    LET hourOfDay == hour
        demand == MockDemand(hourOfDay)
        supply == Centi(50) + Sin20(hourOfDay) + Rand(rSupply, 15)
        netBalance == supply - demand
        batteryLevel == Centi(30) + Sin20(hourOfDay) + Rand(rBattery, 10)
    IN  [hour |-> hourOfDay,
         simulated_supply_mw |-> Max(0, supply),
         simulated_demand_mw |-> Max(0, demand + Rand(rDemand, 10)),
         net_balance_mw |-> netBalance,
         battery_charge_mwh |-> batteryLevel * 3,
         battery_percent |-> Max(Centi(10), Min(Centi(95), batteryLevel)),
         to_battery_mw |-> IF netBalance > 0 THEN Min(netBalance, Centi(20)) ELSE 0,
         from_battery_mw |-> IF netBalance < 0 THEN Min(Abs(netBalance), Centi(25)) ELSE 0,
         to_grid_mw |-> IF netBalance > 0 THEN Max(0, netBalance - Centi(5)) ELSE 0,
         from_grid_mw |-> IF netBalance < 0 THEN Max(0, Abs(netBalance) - Centi(5)) ELSE 0,
         status |-> MockStatus(netBalance)]

mockSimulationData_short(sSupply, sBattery, sDemand) ==
    [i \in 1..23 |->
        MockRecord(i, Draw(sSupply, i), Draw(sBattery, i), Draw(sDemand, i))]

mockSimulationData(sSupply, sBattery, sDemand) ==
    [i \in 1..24 |->
        MockRecord(i - 1, Draw(sSupply, i - 1), Draw(sBattery, i - 1), Draw(sDemand, i - 1))]

\* every fallback data set the bounded Math.random() streams can generate
MockDataSets ==
    {mockSimulationData(sSupply, sBattery, sDemand) :
        sSupply \in 0..(RandDen - 1), sBattery \in 0..(RandDen - 1),
        sDemand \in 0..(RandDen - 1)}

\* the data sets whose three streams start at the same draw
AlignedMockDataSets ==
    {mockSimulationData(s, s, s) : s \in 0..(RandDen - 1)}

mockAlerts == <<[level |-> "warning", message |-> "Using simulated data"]>>

mockSummary == [surplus_hours |-> 8, deficit_hours |-> 10, balanced_hours |-> 6]

(***************************************************************************)
(* The backend behind POST /api/simulate: the timestep loop over a         *)
(* forecast, dispatching each hour with optimize_grid.                     *)
(***************************************************************************)
\* (supply_mw, demand_mw) of one forecast hour
ForecastLevels == {<<100, 70>>, <<40, 100>>, <<75, 70>>}

Forecasts == UNION {[1..n -> ForecastLevels] : n \in {0, HorizonLen}}

\* the empty forecast and the forecasts that repeat one level every hour
SteadyForecasts == {<<>>} \cup {[i \in 1..HorizonLen |-> level] : level \in ForecastLevels}

StatusOf(net) ==
    IF net > 5 THEN "Surplus" ELSE IF net < -5 THEN "Deficit" ELSE "Balanced"

TimestepRecord(hour, supply, demand, out, newSoc, capacity) ==
    [hour |-> hour,
     simulated_supply_mw |-> Centi(supply),
     simulated_demand_mw |-> Centi(demand),
     net_balance_mw |-> Centi(supply - demand),
     battery_charge_mwh |-> Centi(newSoc),
     battery_percent |-> (Centi(100) * newSoc) \div capacity,
     to_battery_mw |-> Centi(Get(out, "battery_charge")),
     from_battery_mw |-> Centi(Get(out, "battery_discharge")),
     to_grid_mw |-> Centi(Get(out, "grid_export")),
     from_grid_mw |-> Centi(Get(out, "grid_import")),
     status |-> StatusOf(supply - demand)]

RECURSIVE SimulateFrom(_, _, _, _)
SimulateFrom(body, forecast, i, soc) ==
    IF i > Len(forecast) THEN <<>>
    ELSE LET out == optimize_grid(forecast[i][1], forecast[i][2], soc,
                                  body.battery_capacity_mwh,
                                  body.battery_max_charge_mw,
                                  body.battery_max_discharge_mw)
             newSoc == NextSoc(soc, out)
         IN  <<TimestepRecord(i - 1, forecast[i][1], forecast[i][2], out, newSoc,
                              body.battery_capacity_mwh)>>
             \o SimulateFrom(body, forecast, i + 1, newSoc)

CountStatus(records, st) == Cardinality({i \in DOMAIN records : records[i].status = st})

RECURSIVE AlertEngine(_)
AlertEngine(records) ==
    IF records = <<>> THEN <<>>
    ELSE LET r == Head(records) IN
         (IF r.battery_percent < Centi(10)
            THEN <<[level |-> "critical", message |-> "battery critically low"]>>
            ELSE IF r.battery_percent > Centi(95)
            THEN <<[level |-> "warning", message |-> "battery near full"]>>
            ELSE <<>>)
         \o AlertEngine(Tail(records))

simulate(body, forecast) ==
    LET records == SimulateFrom(body, forecast, 1, body.initial_battery_mwh) IN
    [simulation_data |-> records,
     alerts |-> AlertEngine(records),
     maintenance_windows |-> <<>>,
     summary |-> [surplus_hours |-> CountStatus(records, "Surplus"),
                  deficit_hours |-> CountStatus(records, "Deficit"),
                  balanced_hours |-> CountStatus(records, "Balanced")]]

(***************************************************************************)
(* Index: the handlers of the page.                                        *)
(***************************************************************************)
Modes == {"LIVE", "MANUAL", "CUSTOM"}

RemoveAt(seq, i) == SubSeq(seq, 1, i - 1) \o SubSeq(seq, i + 1, Len(seq))

SliceLast_head(seq, n) == SubSeq(seq, 1, IF n <= Len(seq) THEN n ELSE Len(seq))

\* prev.slice(-n)
SliceLast(seq, n) == SubSeq(seq, Max(1, Len(seq) - n + 1), Len(seq))
\* prev.slice(0, n)
SliceFirst(seq, n) == SubSeq(seq, 1, Min(n, Len(seq)))

\* clearInterval(ref.current): the timer the ref names stops
ClearInterval(timers, ref) ==
    IF ref.active /\ \E k \in DOMAIN timers : timers[k] = ref
    THEN RemoveAt(timers, CHOOSE k \in DOMAIN timers :
                              /\ timers[k] = ref
                              /\ \A j \in 1..(k - 1) : timers[j] # ref)
    ELSE timers

\* runSimulation() from the RUN button, the header refresh or the load button:
\* the part before the await
RunSimulation ==
    /\ mounted
    /\ ~isRunning
    /\ Len(inflight) < MaxInFlight
    /\ isRunning' = TRUE
    /\ inflight' = Append(inflight,
                          Request("button", FALSE, mode, simulationData # <<>>, CurrentBody))
    /\ UNCHANGED <<liveIntervalRef, intervals, mounted, handleKeyPress,
                   uiVars, dataVars, engineVars>>

\* the elements a keydown event can have as its target
KeyTargets == {"HTMLInputElement", "HTMLTextAreaElement", "HTMLBodyElement"}

SpaceKey_any_mode(target) ==
    /\ mounted
    /\ target \notin {"HTMLInputElement", "HTMLTextAreaElement"}
    /\ ~handleKeyPress.isRunning
    /\ Len(inflight) < MaxInFlight
    /\ isRunning' = TRUE
    /\ inflight' = Append(inflight,
                          Request("space", FALSE, handleKeyPress.mode,
                                  handleKeyPress.hadData, handleKeyPress.body)
                              @@ [target |-> target])
    /\ UNCHANGED <<liveIntervalRef, intervals, mounted, handleKeyPress,
                   uiVars, dataVars, engineVars>>

\* keydown with e.code === 'Space' on target: the registered listener returns
\* for a text input or textarea, else calls the runSimulation of the render
\* it was registered in (deps [mode, simulationData]); the request keeps the
\* event target
SpaceKey(target) ==
    /\ mounted
    /\ target \notin {"HTMLInputElement", "HTMLTextAreaElement"}
    /\ handleKeyPress.mode = "MANUAL"
    /\ ~handleKeyPress.isRunning
    /\ Len(inflight) < MaxInFlight
    /\ isRunning' = TRUE
    /\ inflight' = Append(inflight,
                          Request("space", FALSE, handleKeyPress.mode,
                                  handleKeyPress.hadData, handleKeyPress.body)
                              @@ [target |-> target])
    /\ UNCHANGED <<liveIntervalRef, intervals, mounted, handleKeyPress,
                   uiVars, dataVars, engineVars>>

\* OperationalModes, a fault checkbox: setFaults({ ...faults, [name]: checked })
FaultNames == {"turbineFailure", "multipleTurbineFailure", "gridIssue", "batteryFault"}

SetFault(name, checked) ==
    /\ mounted
    /\ faults[name] # checked
    /\ faults' = [faults EXCEPT ![name] = checked]
    /\ UNCHANGED <<mode, turbineCount, turbineAvailability, batteryCapacity, dateRange,
                   dataVars, runVars, engineVars>>

SetMode_keep_timer(m) ==
    /\ mounted
    /\ m # mode
    /\ mode' = m
    /\ IF m = "LIVE"
       THEN LET body == requestBody(m, turbineCount, turbineAvailability,
                                    batteryCapacity, faults, dateRange)
                timer == [active |-> TRUE, hadData |-> simulationData # <<>>,
                          body |-> body]
            IN  /\ Len(inflight) < MaxInFlight
                /\ inflight' = Append(inflight,
                                      Request("effect", TRUE, m, simulationData # <<>>, body))
                /\ intervals' = Append(intervals, timer)
                /\ liveIntervalRef' = timer
       ELSE /\ inflight' = inflight
            /\ intervals' = intervals
            /\ liveIntervalRef' = NoInterval
    /\ handleKeyPress' = KeyClosure(m, isRunning, simulationData,
                                    requestBody(m, turbineCount, turbineAvailability,
                                                batteryCapacity, faults, dateRange))
    /\ UNCHANGED <<turbineCount, turbineAvailability, batteryCapacity, faults, dateRange,
                   isRunning, mounted, dataVars, engineVars>>

\* setMode(m) and the effects on [mode]: the cleanup of the previous effect
\* and the effect clear the interval; in LIVE the effect runs once at once
\* and starts the interval, whose callback keeps this render's closure; the
\* keyboard effect registers this render's listener
SetMode(m) ==
    /\ mounted
    /\ m # mode
    /\ mode' = m
    /\ IF m = "LIVE"
       THEN LET body == requestBody(m, turbineCount, turbineAvailability,
                                    batteryCapacity, faults, dateRange)
                timer == [active |-> TRUE, hadData |-> simulationData # <<>>,
                          body |-> body]
            IN  /\ Len(inflight) < MaxInFlight
                /\ inflight' = Append(inflight,
                                      Request("effect", TRUE, m, simulationData # <<>>, body))
                /\ intervals' = Append(ClearInterval(intervals, liveIntervalRef), timer)
                /\ liveIntervalRef' = timer
       ELSE /\ inflight' = inflight
            /\ intervals' = ClearInterval(intervals, liveIntervalRef)
            /\ liveIntervalRef' = NoInterval
    /\ handleKeyPress' = KeyClosure(m, isRunning, simulationData,
                                    requestBody(m, turbineCount, turbineAvailability,
                                                batteryCapacity, faults, dateRange))
    /\ UNCHANGED <<turbineCount, turbineAvailability, batteryCapacity, faults, dateRange,
                   isRunning, mounted, dataVars, engineVars>>

Tick_blocked(k) ==
    /\ mounted
    /\ ~isRunning
    /\ \A i \in DOMAIN inflight : ~inflight[i].isLiveUpdate
    /\ Len(inflight) < MaxInFlight
    /\ inflight' = Append(inflight,
                          Request("interval", TRUE, "LIVE", intervals[k].hadData,
                                  intervals[k].body))
    /\ UNCHANGED <<isRunning, liveIntervalRef, intervals, mounted, handleKeyPress,
                   uiVars, dataVars, engineVars>>

\* the callback of timer k: runSimulation(true) of the render that started it
Tick(k) ==
    /\ mounted
    /\ Len(inflight) < MaxInFlight
    /\ inflight' = Append(inflight,
                          Request("interval", TRUE, "LIVE", intervals[k].hadData,
                                  intervals[k].body))
    /\ UNCHANGED <<isRunning, liveIntervalRef, intervals, mounted, handleKeyPress,
                   uiVars, dataVars, engineVars>>

\* the page unmounts: the cleanup of the live effect clears the interval
\* (the ref keeps the id), the keyboard effect removes the listener; React
\* drops the state updates of the responses still awaited, so the requests
\* leave the model here
Unmount ==
    /\ mounted
    /\ mounted' = FALSE
    /\ intervals' = ClearInterval(intervals, liveIntervalRef)
    /\ inflight' = <<>>
    /\ UNCHANGED <<isRunning, liveIntervalRef, handleKeyPress,
                   uiVars, dataVars, engineVars>>

\* the fetch of request i resolves with the OK response data (the backend
\* computed it from forecast); the state updates of one continuation are
\* rendered together, and the keyboard effect runs again when
\* simulationData was set
ResponseOkWith(i, data, forecast) ==
    LET req == inflight[i]
        appends == Len(data.simulation_data) > 0 /\ req.mode = "LIVE" /\ req.hadData
    IN  /\ mounted
        /\ appends => liveUpdateCount < MaxLiveUpdates
        /\ inflight' = RemoveAt(inflight, i)
        /\ isRunning' = IF req.isLiveUpdate THEN isRunning ELSE FALSE
        /\ IF Len(data.simulation_data) > 0
           THEN /\ IF req.mode = "LIVE" /\ req.hadData
                   THEN LET newDataPoint ==
                                data.simulation_data[Len(data.simulation_data)] IN
                        /\ simulationData' = SliceLast(simulationData, 23) \o <<newDataPoint>>
                        /\ alerts' = IF Len(data.alerts) > 0
                                     THEN data.alerts \o SliceFirst(alerts, 9)
                                     ELSE alerts
                        /\ liveUpdateCount' = liveUpdateCount + 1
                        /\ lastRun' = [kind |-> "append", body |-> req.body,
                                       forecast |-> <<>>]
                        /\ UNCHANGED <<maintenanceWindows, summary>>
                   ELSE /\ simulationData' = data.simulation_data
                        /\ alerts' = data.alerts
                        /\ maintenanceWindows' = data.maintenance_windows
                        /\ summary' = data.summary
                        /\ lastRun' = [kind |-> "backend", body |-> req.body,
                                        forecast |-> forecast]
                        /\ UNCHANGED liveUpdateCount
                /\ handleKeyPress' = KeyClosure(mode, isRunning', simulationData',
                                                CurrentBody)
           ELSE UNCHANGED <<dataVars, handleKeyPress>>
        /\ UNCHANGED <<liveIntervalRef, intervals, mounted, uiVars, engineVars>>

ResponseOk(i, forecast) ==
    ResponseOkWith(i, simulate(inflight[i].body, forecast), forecast)

ResponseError_live_mock(i, dataSets) ==
    LET req == inflight[i] IN
    /\ mounted
    /\ inflight' = RemoveAt(inflight, i)
    /\ isRunning' = IF req.isLiveUpdate THEN isRunning ELSE FALSE
    /\ simulationData' \in dataSets
    /\ alerts' = mockAlerts
    /\ summary' = mockSummary
    /\ lastRun' = [kind |-> "mock", body |-> req.body, forecast |-> <<>>]
    /\ handleKeyPress' = KeyClosure(mode, isRunning', simulationData', CurrentBody)
    /\ UNCHANGED <<maintenanceWindows, liveUpdateCount>>
    /\ UNCHANGED <<liveIntervalRef, intervals, mounted, uiVars, engineVars>>

ResponseError_no_finally(i, dataSets) ==
    LET req == inflight[i] IN
    /\ mounted
    /\ inflight' = RemoveAt(inflight, i)
    /\ isRunning' = isRunning
    /\ IF ~req.isLiveUpdate
       THEN /\ simulationData' \in dataSets
            /\ alerts' = mockAlerts
            /\ summary' = mockSummary
            /\ lastRun' = [kind |-> "mock", body |-> req.body, forecast |-> <<>>]
            /\ handleKeyPress' = KeyClosure(mode, isRunning', simulationData', CurrentBody)
            /\ UNCHANGED <<maintenanceWindows, liveUpdateCount>>
       ELSE UNCHANGED <<dataVars, handleKeyPress>>
    /\ UNCHANGED <<liveIntervalRef, intervals, mounted, uiVars, engineVars>>

\* the fetch of request i rejects, or resolves with a non-OK status:
\* the catch branch; a non-live run generates the fallback records from the
\* Math.random() streams it draws, one of dataSets
ResponseError(i, dataSets) ==
    LET req == inflight[i] IN
    /\ mounted
    /\ inflight' = RemoveAt(inflight, i)
    /\ isRunning' = IF req.isLiveUpdate THEN isRunning ELSE FALSE
    /\ IF ~req.isLiveUpdate
       THEN /\ simulationData' \in dataSets
            /\ alerts' = mockAlerts
            /\ summary' = mockSummary
            /\ lastRun' = [kind |-> "mock", body |-> req.body, forecast |-> <<>>]
            /\ handleKeyPress' = KeyClosure(mode, isRunning', simulationData', CurrentBody)
            /\ UNCHANGED <<maintenanceWindows, liveUpdateCount>>
       ELSE UNCHANGED <<dataVars, handleKeyPress>>
    /\ UNCHANGED <<liveIntervalRef, intervals, mounted, uiVars, engineVars>>

Init == InitDashboard /\ InitEngineIdle

Next ==
    \/ RunSimulation
    \/ \E target \in KeyTargets : SpaceKey(target)
    \/ \E m \in Modes : SetMode(m)
    \/ \E k \in DOMAIN intervals : Tick(k)
    \/ \E i \in DOMAIN inflight, forecast \in SteadyForecasts : ResponseOk(i, forecast)
    \/ \E i \in DOMAIN inflight : ResponseError(i, AlignedMockDataSets)
    \/ Unmount

Spec == Init /\ [][Next]_vars

(***************************************************************************)
(* Non-live runs in MANUAL mode, with or without the battery fault and the *)
(* turbine failure selected, over every                                    *)
(* forecast and every fallback data set (SpecManualRuns): what one run can *)
(* put on display.                                                         *)
(***************************************************************************)
NextManualRuns ==
    \/ RunSimulation
    \/ \E name \in {"batteryFault", "turbineFailure"}, checked \in BOOLEAN :
          SetFault(name, checked)
    \/ \E i \in DOMAIN inflight, forecast \in Forecasts : ResponseOk(i, forecast)
    \/ \E i \in DOMAIN inflight : ResponseError(i, MockDataSets)

SpecManualRuns == Init /\ [][NextManualRuns]_vars

(***************************************************************************)
(* The live lifecycle (SpecLive): mode changes, the interval, runs from    *)
(* the RUN button and the Space key, and the unmount, with the backend     *)
(* answering from one                                                      *)
(* steady forecast and one data set of the fallback generator.             *)
(***************************************************************************)
LiveForecasts == {<<>>, [h \in 1..HorizonLen |-> <<100, 70>>]}

\* the fallback records whose three Math.random() streams start at draw 0
SeedZeroMockDataSets == {mockSimulationData(0, 0, 0)}

NextLive ==
    \/ RunSimulation
    \/ \E target \in KeyTargets : SpaceKey(target)
    \/ \E m \in Modes : SetMode(m)
    \/ \E k \in DOMAIN intervals : Tick(k)
    \/ \E i \in DOMAIN inflight, forecast \in LiveForecasts : ResponseOk(i, forecast)
    \/ \E i \in DOMAIN inflight : ResponseError(i, SeedZeroMockDataSets)
    \/ Unmount

SpecLive == Init /\ [][NextLive]_vars

\* every fetch settles: the oldest request awaited is answered in the end,
\* with a response or with a failure
Respond(i) ==
    \/ \E forecast \in LiveForecasts : ResponseOk(i, forecast)
    \/ ResponseError(i, SeedZeroMockDataSets)

SpecLiveFair ==
    /\ Init
    /\ [][NextLive]_vars
    /\ WF_vars(inflight # <<>> /\ Respond(1))

(***************************************************************************)
(* Live updates whose responses carry an alert log of any length           *)
(* (SpecLiveAlerts): the backend appends one alert per triggering          *)
(* condition per hour and truncates nothing.                               *)
(***************************************************************************)
ResponseAlertCounts == {0, 1, 2, 11}

AlertLog(n) == [k \in 1..n |-> [level |-> "warning", message |-> "alert", hour |-> k]]

NextLiveAlerts ==
    \/ RunSimulation
    \/ \E m \in Modes : SetMode(m)
    \/ \E k \in DOMAIN intervals : Tick(k)
    \/ \E i \in DOMAIN inflight, n \in ResponseAlertCounts :
          LET forecast == [h \in 1..HorizonLen |-> <<100, 70>>] IN
          ResponseOkWith(i, [simulate(inflight[i].body, forecast)
                                EXCEPT !.alerts = AlertLog(n)], forecast)
    \/ \E i \in DOMAIN inflight : ResponseError(i, SeedZeroMockDataSets)

SpecLiveAlerts == Init /\ [][NextLiveAlerts]_vars

(***************************************************************************)
(* The dispatch rule run from the configurations the page sends            *)
(* (SpecPageDispatch): every battery capacity of the slider, with and      *)
(* without the battery fault, starting at the initial_battery_mwh sent.    *)
(***************************************************************************)
InitPageDispatch ==
    /\ mode = "MANUAL"
    /\ turbineCount = 50
    /\ turbineAvailability = 95
    /\ batteryCapacity \in {100 + 10 * k : k \in 0..40}
    /\ faults \in {NoFaults, [NoFaults EXCEPT !.batteryFault = TRUE]}
    /\ dateRange = [from |-> undefined, to |-> undefined]
    /\ simulationData = <<>>
    /\ alerts = <<>>
    /\ maintenanceWindows = <<>>
    /\ summary = NoSummary
    /\ isRunning = FALSE
    /\ liveUpdateCount = 0
    /\ liveIntervalRef = NoInterval
    /\ intervals = <<>>
    /\ mounted = TRUE
    /\ handleKeyPress = KeyClosure(mode, isRunning, simulationData, CurrentBody)
    /\ inflight = <<>>
    /\ lastRun = [kind |-> None]
    /\ engineCfg = [battery_capacity_mwh |-> CurrentBody.battery_capacity_mwh,
                    battery_max_charge_mw |-> CurrentBody.battery_max_charge_mw,
                    battery_max_discharge_mw |-> CurrentBody.battery_max_discharge_mw]
    /\ soc_mwh = CurrentBody.initial_battery_mwh
    /\ stepRec = NoStep

SpecPageDispatch == InitPageDispatch /\ [][NextDispatch]_vars

(***************************************************************************)
(* OperationalModes, CUSTOM tab: the date pickers and the presets          *)
(* (SpecCustomDates).  Dates are day numbers; the month of today runs from *)
(* MonthStart to MonthEnd.                                                 *)
(***************************************************************************)
\* new Date()
Today == 45
MonthStart == 30
MonthEnd == 59

\* the days the user picks in the calendars
CalendarDays == {Today - 1, Today}

Presets == {"last7", "last30", "thisMonth"}

\* start date Calendar, onSelect: picking the selected day again clears it
SelectStartDate(date) ==
    /\ mounted
    /\ mode = "CUSTOM"
    /\ dateRange' = [dateRange EXCEPT !.from = IF date = dateRange.from
                                                THEN undefined ELSE date]
    /\ UNCHANGED <<mode, turbineCount, turbineAvailability, batteryCapacity, faults,
                   dataVars, runVars, engineVars>>

\* end date Calendar, onSelect: the days before dateRange.from are disabled
SelectEndDate(date) ==
    /\ mounted
    /\ mode = "CUSTOM"
    /\ ~(dateRange.from # undefined /\ date < dateRange.from)
    /\ dateRange' = [dateRange EXCEPT !.to = IF date = dateRange.to
                                              THEN undefined ELSE date]
    /\ UNCHANGED <<mode, turbineCount, turbineAvailability, batteryCapacity, faults,
                   dataVars, runVars, engineVars>>

setPreset(preset) ==
    /\ mounted
    /\ mode = "CUSTOM"
    /\ dateRange' = IF preset = "last7" THEN [from |-> Today - 7, to |-> Today]
                    ELSE IF preset = "last30" THEN [from |-> Today - 30, to |-> Today]
                    ELSE [from |-> MonthStart, to |-> MonthEnd]
    /\ UNCHANGED <<mode, turbineCount, turbineAvailability, batteryCapacity, faults,
                   dataVars, runVars, engineVars>>

NextCustomDates ==
    \/ \E m \in {"MANUAL", "CUSTOM"} : SetMode(m)
    \/ \E date \in CalendarDays : SelectStartDate(date)
    \/ \E date \in CalendarDays : SelectEndDate(date)
    \/ \E preset \in Presets : setPreset(preset)
    \/ RunSimulation
    \/ \E i \in DOMAIN inflight, forecast \in LiveForecasts : ResponseOk(i, forecast)
    \/ \E i \in DOMAIN inflight : ResponseError(i, SeedZeroMockDataSets)

SpecCustomDates == Init /\ [][NextCustomDates]_vars

(***************************************************************************)
(* The request body over every setting of the controls (SpecRequest).      *)
(***************************************************************************)
\* OperationalModes: the sliders
TurbineCountSettings == {10, 50, 100}
TurbineAvailabilitySettings == 50..100
BatteryCapacitySettings == {100 + 10 * k : k \in 0..40}

InitRequest ==
    /\ mode \in Modes
    /\ turbineCount \in TurbineCountSettings
    /\ turbineAvailability \in TurbineAvailabilitySettings
    /\ batteryCapacity \in BatteryCapacitySettings
    /\ faults \in [turbineFailure : BOOLEAN, multipleTurbineFailure : BOOLEAN,
                   gridIssue : BOOLEAN, batteryFault : BOOLEAN]
    /\ dateRange = [from |-> undefined, to |-> undefined]
    /\ simulationData = <<>>
    /\ alerts = <<>>
    /\ maintenanceWindows = <<>>
    /\ summary = NoSummary
    /\ isRunning = FALSE
    /\ liveUpdateCount = 0
    /\ liveIntervalRef = NoInterval
    /\ intervals = <<>>
    /\ mounted = TRUE
    /\ handleKeyPress = KeyClosure(mode, isRunning, simulationData, CurrentBody)
    /\ inflight = <<>>
    /\ lastRun = [kind |-> None]
    /\ InitEngineIdle

NextRequest == RunSimulation

SpecRequest == InitRequest /\ [][NextRequest]_vars

(***************************************************************************)
(* Properties of the dispatch rule (SpecDispatch).                         *)
(***************************************************************************)
StepNet == stepRec.supply - stepRec.demand
StepCharge == Get(stepRec.out, "battery_charge")
StepDischarge == Get(stepRec.out, "battery_discharge")
StepExport == Get(stepRec.out, "grid_export")
StepImport == Get(stepRec.out, "grid_import")
HighMwh == (80 * engineCfg.battery_capacity_mwh) \div 100
LowMwh == (20 * engineCfg.battery_capacity_mwh) \div 100

\* C2: after any sequence of dispatch steps from any initial SOC in
\* [0, capacity], the state of charge stays within [0, battery_capacity_mwh].
SocWithinCapacity ==
    /\ 0 <= soc_mwh
    /\ soc_mwh <= engineCfg.battery_capacity_mwh

\* a surplus hour dispatched on a completely full battery
FullBatterySurplusStep ==
    /\ stepRec.taken
    /\ stepRec.soc_before = engineCfg.battery_capacity_mwh
    /\ StepNet > engineCfg.battery_max_charge_mw

\* C3: the applied charge power is at most battery_max_charge_mw and the
\* applied discharge power is at most battery_max_discharge_mw.
PowerWithinLimits ==
    stepRec.taken =>
        /\ StepCharge <= engineCfg.battery_max_charge_mw
        /\ StepDischarge <= engineCfg.battery_max_discharge_mw

\* a surplus above the charge limit with SOC headroom to spare: the limit binds
ChargeLimitedStep ==
    /\ stepRec.taken
    /\ StepNet > engineCfg.battery_max_charge_mw
    /\ HighMwh - stepRec.soc_before > engineCfg.battery_max_charge_mw
    /\ StepCharge = engineCfg.battery_max_charge_mw

\* C4: the charge amount and the discharge amount returned by the dispatch
\* rule are never negative (an infeasible request yields exactly 0).
AppliedPowerNonNegative ==
    stepRec.taken =>
        /\ StepCharge >= 0
        /\ StepDischarge >= 0

ScenarioAInput ==
    /\ stepRec.taken
    /\ stepRec.supply = 100 /\ stepRec.demand = 70
    /\ engineCfg.battery_capacity_mwh = 300
    /\ stepRec.soc_before = 150
    /\ engineCfg.battery_max_charge_mw = 50

ScenarioCInput ==
    /\ stepRec.taken
    /\ stepRec.supply = 100 /\ stepRec.demand = 70
    /\ engineCfg.battery_capacity_mwh = 300
    /\ stepRec.soc_before = 150
    /\ engineCfg.battery_max_charge_mw = 25

ScenarioBInput ==
    /\ stepRec.taken
    /\ stepRec.supply = 40 /\ stepRec.demand = 100
    /\ engineCfg.battery_capacity_mwh = 300
    /\ stepRec.soc_before = 75
    /\ engineCfg.battery_max_discharge_mw = 100

SurplusBranchTaken == DOMAIN stepRec.out = {"battery_charge", "grid_export"}
DeficitBranchTaken == DOMAIN stepRec.out = {"battery_discharge", "grid_import"}

SurplusFormula ==
    /\ SurplusBranchTaken
    /\ StepCharge = Min3(StepNet, engineCfg.battery_max_charge_mw,
                         HighMwh - stepRec.soc_before)
    /\ StepExport = StepNet - StepCharge

ScenariosAC ==
    /\ ScenarioAInput => (StepCharge = 30 /\ StepExport = 0)
    /\ ScenarioCInput => (StepCharge = 25 /\ StepExport = 5)

\* C5 as stated: whenever net >= 0 the surplus branch applies
\* charge = min(net, max_charge_mw, high_threshold*capacity - soc_mwh) and
\* export = net - charge; Scenario A gives 30 / 0, Scenario C gives 25 / 5.
SurplusDispatchFromZero ==
    stepRec.taken =>
        /\ (StepNet >= 0 => SurplusFormula)
        /\ ScenariosAC

\* C5 amended: whenever net > 0 the surplus branch applies
\* charge = min(net, max_charge_mw, high_threshold*capacity - soc_mwh) and
\* export = net - charge; Scenario A gives 30 / 0, Scenario C gives 25 / 5;
\* net = 0 is handled by the deficit branch.
SurplusDispatch ==
    stepRec.taken =>
        /\ (StepNet > 0 => SurplusFormula)
        /\ ScenariosAC
        /\ (StepNet = 0 =>
               /\ DeficitBranchTaken
               /\ StepDischarge = Min3(0, engineCfg.battery_max_discharge_mw,
                                       stepRec.soc_before - LowMwh)
               /\ StepImport = 0 - StepDischarge)

\* Scenario C has been dispatched
ScenarioCDispatched == ScenarioCInput /\ StepCharge = 25 /\ StepExport = 5

\* C6: whenever net < 0 the applied discharge is
\* min(|net|, max_discharge_mw, soc_mwh - low_threshold*capacity) and
\* import = |net| - discharge; Scenario B gives discharge 15, new SOC 60 MWh
\* and import 45 MW.
DeficitDispatch ==
    stepRec.taken =>
        /\ (StepNet < 0 =>
               /\ DeficitBranchTaken
               /\ StepDischarge = Min3(Abs(StepNet), engineCfg.battery_max_discharge_mw,
                                       stepRec.soc_before - LowMwh)
               /\ StepImport = Abs(StepNet) - StepDischarge)
        /\ (ScenarioBInput =>
               (StepDischarge = 15 /\ soc_mwh = 60 /\ StepImport = 45))

\* Scenario B has been dispatched
ScenarioBDispatched == ScenarioBInput /\ StepDischarge = 15 /\ soc_mwh = 60

(***************************************************************************)
(* What the page shows: Index passes the last record to the schematic.     *)
(***************************************************************************)
latestData == simulationData[Len(simulationData)]

\* EnergyFlowSchematic: the "System Imbalance Detected" warning
hasImbalance(data) ==
    LET expectedBalance == data.simulated_supply_mw - data.simulated_demand_mw
        actualBalance == data.net_balance_mw
        imbalance == Abs(expectedBalance - actualBalance)
    IN  imbalance > Centi(5)

\* MetricsGrid: the colour band of the NET BALANCE tile
isBalanced(data) == Abs(data.net_balance_mw) < Centi(5)

\* EnergyFlowSchematic: the SURPLUS / DEFICIT badge
isSurplus(data) == data.net_balance_mw >= 0

(***************************************************************************)
(* Properties of the displayed records (Spec, SpecManualRuns).             *)
(***************************************************************************)
FlowBalance(r) ==
    Abs((r.to_battery_mw - r.from_battery_mw + r.to_grid_mw - r.from_grid_mw)
        - (r.simulated_supply_mw - r.simulated_demand_mw)) <= Centi(5)

\* C1: in every record the dashboard displays (backend or fallback),
\* to_battery_mw - from_battery_mw + to_grid_mw - from_grid_mw equals
\* supply_mw - demand_mw within 5 MW.
EnergyBalance ==
    \A i \in DOMAIN simulationData : FlowBalance(simulationData[i])

\* C7: in every record, status is Surplus iff net_balance_mw > 5, Deficit iff
\* net_balance_mw < -5, and Balanced otherwise (including exactly +5 and -5).
StatusConsistency ==
    \A i \in DOMAIN simulationData :
        LET r == simulationData[i] IN
        /\ r.status \in {"Surplus", "Deficit", "Balanced"}
        /\ r.status = "Surplus" <=> r.net_balance_mw > Centi(5)
        /\ r.status = "Deficit" <=> r.net_balance_mw < 0 - Centi(5)
        /\ r.status = "Balanced" <=> Abs(r.net_balance_mw) <= Centi(5)

\* generated fallback records on display, one of them with a net balance of
\* exactly 5 MW and one with a net balance above it
FallbackAtStatusBoundary ==
    /\ lastRun.kind = "mock"
    /\ \E i \in DOMAIN simulationData :
          /\ Abs(simulationData[i].net_balance_mw) = Centi(5)
          /\ simulationData[i].status = "Balanced"
    /\ \E i \in DOMAIN simulationData : simulationData[i].status = "Surplus"
    /\ \E i \in DOMAIN simulationData : simulationData[i].status = "Deficit"

\* C8: in every displayed record net_balance_mw equals
\* simulated_supply_mw - simulated_demand_mw, so the schematic never shows
\* the "System Imbalance Detected" warning.
NetBalanceMatchesSupplyDemand ==
    /\ \A i \in DOMAIN simulationData :
          simulationData[i].net_balance_mw =
              simulationData[i].simulated_supply_mw - simulationData[i].simulated_demand_mw
    /\ simulationData # <<>> => ~hasImbalance(latestData)

\* C9: a run with the same request and the same forecast input as the run on
\* display yields the same records, alerts, maintenance windows and summary.
Determinism ==
    [][(lastRun' = lastRun /\ lastRun.kind \in {"backend", "mock"})
          => UNCHANGED <<simulationData, alerts, maintenanceWindows, summary>>]_vars

(***************************************************************************)
(* Properties of the request body (SpecRequest).                           *)
(***************************************************************************)
\* C10: every request the dashboard builds satisfies
\* 0 <= initial_battery_mwh <= battery_capacity_mwh and
\* 0 <= battery_low_threshold < battery_high_threshold <= 1.
ConfigInvariant ==
    \A i \in DOMAIN inflight :
        LET b == inflight[i].body IN
        /\ 0 <= b.initial_battery_mwh
        /\ b.initial_battery_mwh <= b.battery_capacity_mwh
        /\ 0 <= b.battery_low_threshold
        /\ b.battery_low_threshold < b.battery_high_threshold
        /\ b.battery_high_threshold <= 100

\* a request built with the battery fault set and the slider at its minimum
BatteryFaultRequestBuilt ==
    /\ faults.batteryFault
    /\ batteryCapacity = 100
    /\ \E i \in DOMAIN inflight :
          /\ inflight[i].body.battery_capacity_mwh = 50
          /\ inflight[i].body.initial_battery_mwh = 50

\* C11: when the grid-issue fault is selected, every request built for the
\* run carries grid_available = false.
GridIssueDisablesGrid ==
    faults.gridIssue =>
        \A i \in DOMAIN inflight :
            LET b == inflight[i].body IN
            /\ "grid_available" \in DOMAIN b
            /\ b.grid_available = FALSE

\* C13: for every availability of the slider, the turbine_availability sent
\* with a single-turbine failure is at most the operator-set value, the value
\* sent with a multi-turbine failure is at most the single-failure value, and
\* with both flags set the multi-turbine value is sent.
SingleFailureAvailability ==
    requestBody(mode, turbineCount, turbineAvailability, batteryCapacity,
                [faults EXCEPT !.turbineFailure = TRUE, !.multipleTurbineFailure = FALSE],
                dateRange).turbine_availability

MultiFailureAvailability ==
    requestBody(mode, turbineCount, turbineAvailability, batteryCapacity,
                [faults EXCEPT !.turbineFailure = FALSE, !.multipleTurbineFailure = TRUE],
                dateRange).turbine_availability

TurbineFailureScaling ==
    \A i \in DOMAIN inflight :
        LET sent == inflight[i].body.turbine_availability IN
        /\ SingleFailureAvailability <= turbineAvailability
        /\ MultiFailureAvailability <= SingleFailureAvailability
        /\ faults.multipleTurbineFailure => sent = MultiFailureAvailability
        /\ (faults.turbineFailure /\ ~faults.multipleTurbineFailure)
               => sent = SingleFailureAvailability
        /\ (~faults.turbineFailure /\ ~faults.multipleTurbineFailure)
               => sent = turbineAvailability

\* a request built with both turbine flags set and the slider at its minimum
BothTurbineFlagsRequestBuilt ==
    /\ faults.turbineFailure
    /\ faults.multipleTurbineFailure
    /\ turbineAvailability = 50
    /\ \E i \in DOMAIN inflight : inflight[i].body.turbine_availability = 25

(***************************************************************************)
(* Properties of the dispatch rule over the page's configurations          *)
(* (SpecPageDispatch).                                                     *)
(***************************************************************************)
\* C12: for every configuration the page sends (the battery-fault one
\* included) the SOC after each dispatch step lies within
\* [low_threshold * capacity, high_threshold * capacity].
SocWithinBand ==
    stepRec.taken =>
        /\ 20 * engineCfg.battery_capacity_mwh <= 100 * soc_mwh
        /\ 100 * soc_mwh <= 80 * engineCfg.battery_capacity_mwh

(***************************************************************************)
(* Properties of the page's handlers (Spec, SpecLive, SpecLiveAlerts).     *)
(***************************************************************************)
\* C14: every tick of the live polling timer issues a full simulation
\* request, whether or not an earlier live request or a manual run is still
\* in flight (isRunning true).
LiveTickNeverBlocked ==
    \A k \in DOMAIN intervals :
        (mounted /\ Len(inflight) < MaxInFlight) =>
            ENABLED (/\ Tick(k)
                     /\ Len(inflight') = Len(inflight) + 1
                     /\ inflight'[Len(inflight')].isLiveUpdate
                     /\ inflight'[Len(inflight')].body = intervals[k].body)

\* a tick has issued its request while a run from the RUN button is in flight
TickWhileRunning ==
    /\ isRunning
    /\ \E i \in DOMAIN inflight, j \in DOMAIN inflight :
          /\ i < j
          /\ inflight[i].trigger = "button"
          /\ inflight[j].trigger = "interval"

\* C15: whenever a summary is displayed, its surplus_hours, deficit_hours
\* and balanced_hours equal the numbers of displayed records whose status is
\* Surplus, Deficit and Balanced.
SummaryMatchesRecords ==
    summary # NoSummary =>
        /\ summary.surplus_hours = CountStatus(simulationData, "Surplus")
        /\ summary.deficit_hours = CountStatus(simulationData, "Deficit")
        /\ summary.balanced_hours = CountStatus(simulationData, "Balanced")

\* C16: at most one non-live simulation request is in flight at any time.
SingleNonLiveInFlight ==
    Cardinality({i \in DOMAIN inflight : ~inflight[i].isLiveUpdate}) <= 1

\* C17: in LIVE mode, once the page holds at least one record, every
\* successful live response with a non-empty record list appends exactly its
\* last record to the displayed series and increments liveUpdateCount by one.
LiveResponseAppends ==
    [][\A i \in DOMAIN inflight, forecast \in SteadyForecasts :
          (/\ ResponseOk(i, forecast)
           /\ inflight[i].isLiveUpdate
           /\ mode = "LIVE"
           /\ simulationData # <<>>
           /\ forecast # <<>>)
          => LET received == simulate(inflight[i].body, forecast).simulation_data IN
             /\ simulationData' =
                    SliceLast(simulationData, 23) \o <<received[Len(received)]>>
             /\ liveUpdateCount' = liveUpdateCount + 1]_vars

\* C18: after any live-mode append the displayed series holds at most 24
\* records, the newly received record is last, and the retained earlier
\* records are the last 23 of the previous series in their order.
SlidingWindow ==
    [][liveUpdateCount' # liveUpdateCount =>
          LET n == Len(simulationData')
              kept == n - 1
          IN  /\ n >= 1
              /\ n <= 24
              /\ kept = (IF Len(simulationData) <= 23 THEN Len(simulationData) ELSE 23)
              /\ \A j \in 1..kept :
                    simulationData'[j] = simulationData[Len(simulationData) - kept + j]
              /\ \E i \in DOMAIN inflight, forecast \in LiveForecasts :
                    LET received == simulate(inflight[i].body, forecast).simulation_data IN
                    /\ received # <<>>
                    /\ inflight' = RemoveAt(inflight, i)
                    /\ simulationData'[n] = received[Len(received)]]_vars

\* a live append onto the 24 fallback records: hour 0 has left the window
WindowSlid ==
    /\ lastRun.kind = "append"
    /\ Len(simulationData) = 24
    /\ simulationData[1] = mockSimulationData(0, 0, 0)[2]
    /\ simulationData[23] = mockSimulationData(0, 0, 0)[24]
    /\ simulationData[24].hour = HorizonLen - 1

\* C19: after any live update, for any number of alerts in the response,
\* alerts holds at most 10 entries.
AlertsAtMostTen ==
    lastRun.kind = "append" => Len(alerts) <= 10

\* C20: at most one live polling timer is active, a timer is active only
\* while mode is LIVE (and the page mounted), entering LIVE issues one
\* request at once and starts the timer, and each tick issues one request.
LiveTimerDiscipline ==
    /\ [](/\ Len(intervals) <= 1
          /\ intervals # <<>> => (mode = "LIVE" /\ mounted))
    /\ [][(mode' = "LIVE" /\ mode # "LIVE") =>
             /\ Len(inflight') = Len(inflight) + 1
             /\ inflight'[Len(inflight')].trigger = "effect"
             /\ inflight'[Len(inflight')].isLiveUpdate
             /\ Len(intervals') = 1]_vars
    /\ [][(/\ Len(inflight') > Len(inflight)
           /\ inflight'[Len(inflight')].trigger = "interval") =>
             /\ mode = "LIVE"
             /\ Len(intervals) = 1
             /\ Len(inflight') = Len(inflight) + 1]_vars

\* LIVE entered, left and entered again: one timer, both immediate requests
\* still awaited
LiveReentered ==
    /\ mode = "LIVE"
    /\ Len(intervals) = 1
    /\ Len(inflight) = 2
    /\ \A i \in DOMAIN inflight : inflight[i].trigger = "effect"

(***************************************************************************)
(* Properties of what the page shows of the last record and of a failed    *)
(* run (SpecManualRuns).                                                   *)
(***************************************************************************)
\* C21: the metrics grid treats the displayed record as balanced exactly
\* when its status is Balanced, and the schematic's badge is SURPLUS for a
\* Surplus status and DEFICIT for a Deficit status.
BandingMatchesStatus ==
    simulationData # <<>> =>
        /\ isBalanced(latestData) <=> latestData.status = "Balanced"
        /\ latestData.status = "Surplus" => isSurplus(latestData)
        /\ latestData.status = "Deficit" => ~isSurplus(latestData)

\* C22: after a failed non-live run the page shows exactly 24 generated
\* records with hour 0..23 in increasing order and exactly one alert, of
\* level warning, saying that simulated data is in use; the run has ended.
FallbackShown ==
    lastRun.kind = "mock" =>
        /\ Len(simulationData) = 24
        /\ \A i \in DOMAIN simulationData : simulationData[i].hour = i - 1
        /\ Len(alerts) = 1
        /\ alerts[1].level = "warning"
        /\ alerts[1].message = "Using simulated data"
        /\ Cardinality({i \in DOMAIN inflight : ~inflight[i].isLiveUpdate}) = 0
               => ~isRunning

\* a failed run has ended with its fallback on display
FallbackAfterFailedRun ==
    /\ lastRun.kind = "mock"
    /\ ~isRunning
    /\ inflight = <<>>
    /\ Len(simulationData) = 24
    /\ alerts = mockAlerts

(***************************************************************************)
(* Properties of the runs' start and end (SpecLive, SpecLiveFair).         *)
(***************************************************************************)
\* C23: a Space key press starts a simulation only when the mode is MANUAL
\* and the event target is not a text input or textarea.
SpaceOnlyInManual ==
    [][(/\ Len(inflight') > Len(inflight)
        /\ inflight'[Len(inflight')].trigger = "space") =>
          /\ mode = "MANUAL"
          /\ inflight'[Len(inflight')].mode = "MANUAL"
          /\ inflight'[Len(inflight')].target
                 \notin {"HTMLInputElement", "HTMLTextAreaElement"}]_vars

\* back in MANUAL mode after LIVE, a Space press has started a run
SpaceRunStarted ==
    /\ mode = "MANUAL"
    /\ liveUpdateCount > 0
    /\ \E i \in DOMAIN inflight :
          /\ inflight[i].trigger = "space"
          /\ inflight[i].target = "HTMLBodyElement"
          /\ ~inflight[i].isLiveUpdate

NonLiveInFlight == {i \in DOMAIN inflight : ~inflight[i].isLiveUpdate}

\* C24: every non-live run that sets isRunning to true eventually sets it
\* back to false, whatever the outcome of the request; isRunning is never
\* left true once no non-live request is in flight (while the page is mounted).
RunningReset ==
    /\ []((mounted /\ NonLiveInFlight = {}) => ~isRunning)
    /\ ((mounted /\ isRunning) ~> (~isRunning \/ ~mounted))

\* a successful run from MANUAL or CUSTOM mode has ended
NonLiveRunEnded ==
    /\ mounted
    /\ ~isRunning
    /\ inflight = <<>>
    /\ lastRun.kind = "backend"
    /\ ~lastRun.body.use_live_data

(***************************************************************************)
(* Properties of live responses (SpecLiveAlerts, Spec).                    *)
(***************************************************************************)
\* C25: a failed live update leaves simulationData, alerts,
\* maintenanceWindows, summary, isRunning and liveUpdateCount unchanged.
FailedLiveUpdateFrame ==
    [][\A i \in DOMAIN inflight :
          (ResponseError(i, SeedZeroMockDataSets) /\ inflight[i].isLiveUpdate)
          => UNCHANGED <<simulationData, alerts, maintenanceWindows, summary,
                         isRunning, liveUpdateCount>>]_vars

\* LIVE was entered with records on display and the request sent at once has
\* been answered without any append: it failed
FailedLiveUpdateSeen ==
    /\ mode = "LIVE"
    /\ liveIntervalRef.active
    /\ liveIntervalRef.hadData
    /\ simulationData # <<>>
    /\ inflight = <<>>
    /\ liveUpdateCount = 0

\* C26: the displayed records, alerts, maintenance windows and summary all
\* come from one and the same run: one backend response to a request of the
\* page, or one fallback generation.
OneRunOrigin ==
    simulationData # <<>> =>
        \/ \E m \in Modes, forecast \in SteadyForecasts :
              LET data == simulate(requestBody(m, turbineCount, turbineAvailability,
                                               batteryCapacity, faults, dateRange),
                                   forecast)
              IN  /\ simulationData = data.simulation_data
                  /\ alerts = data.alerts
                  /\ maintenanceWindows = data.maintenance_windows
                  /\ summary = data.summary
        \/ /\ simulationData \in AlignedMockDataSets
           /\ alerts = mockAlerts
           /\ maintenanceWindows = <<>>
           /\ summary = mockSummary

\* C27: once the mode has changed away from LIVE, no response to a
\* live-update request modifies simulationData, alerts, maintenanceWindows,
\* summary or liveUpdateCount.
LateLiveResponseIgnored ==
    [][\A i \in DOMAIN inflight, forecast \in SteadyForecasts :
          (/\ ResponseOk(i, forecast)
           /\ inflight[i].isLiveUpdate
           /\ mode # "LIVE")
          => UNCHANGED <<simulationData, alerts, maintenanceWindows, summary,
                         liveUpdateCount>>]_vars

\* C28: in every displayed record, of the backend or of the fallback,
\* to_battery_mw and from_battery_mw are never both positive and to_grid_mw
\* and from_grid_mw are never both positive.
NoOppositeFlows ==
    \A i \in DOMAIN simulationData :
        LET r == simulationData[i] IN
        /\ ~(r.to_battery_mw > 0 /\ r.from_battery_mw > 0)
        /\ ~(r.to_grid_mw > 0 /\ r.from_grid_mw > 0)

\* fallback records on display with an hour that charges and exports and an
\* hour that discharges and imports
BothDirectionsDisplayed ==
    /\ lastRun.kind = "mock"
    /\ \E i \in DOMAIN simulationData :
          simulationData[i].to_battery_mw > 0 /\ simulationData[i].to_grid_mw > 0
    /\ \E i \in DOMAIN simulationData :
          simulationData[i].from_battery_mw > 0 /\ simulationData[i].from_grid_mw > 0

(***************************************************************************)
(* Properties of the date range (SpecCustomDates).                         *)
(***************************************************************************)
\* C29: whenever both dateRange.from and dateRange.to are set, from is not
\* later than to, and every date_range sent in a request is a non-inverted
\* interval.
DateRangeValid ==
    /\ (dateRange.from # undefined /\ dateRange.to # undefined)
           => dateRange.from <= dateRange.to
    /\ \A i \in DOMAIN inflight :
          LET b == inflight[i].body IN
          "from" \in DOMAIN b.date_range => b.date_range.from <= b.date_range.to

====
